---- MODULE Spec2Model ----
(***************************************************************************)
(* A model of the YouTube transcript fetcher (src/fetch_transcripts.py),   *)
(* its batch driver (src/cmd_driver.py) and its interactive front-end      *)
(* (src/streamlit_app.py).                                                  *)
(*                                                                         *)
(* Strings are sequences of one-character strings, so that the text        *)
(* operations of the code (strip, replace, re.sub, slicing, join) are      *)
(* computed character by character.                                        *)
(***************************************************************************)
EXTENDS Naturals, Integers, Sequences, FiniteSets, TLC

(***************************************************************************)
(* Bounds of the model.                                                    *)
(***************************************************************************)
\* most cues in a caption file, and most characters in all its cues together
MaxCues == 3
MaxChars == 4
\* most characters of a video title besides its padding
MaxTitleLen == 3
\* most URLs in one run (batch list, or clicks in the front-end)
MaxUrls == 2

(***************************************************************************)
(* Characters.                                                             *)
(***************************************************************************)
Lower == {"a","b","c","d","e","f","g","h","i","j","k","l","m",
          "n","o","p","q","r","s","t","u","v","w","x","y","z"}
Upper == {"A","B","C","D","E","F","G","H","I","J","K","L","M",
          "N","O","P","Q","R","S","T","U","V","W","X","Y","Z"}
Digits == {"0","1","2","3","4","5","6","7","8","9"}
\* the characters str.strip() removes (the ones TLA+ can write)
Whitespace == {" ", "\t", "\n", "\r", "\f"}
\* the class [a-zA-Z0-9\-] of the title pattern
TitleChars == Lower \cup Upper \cup Digits \cup {"-"}
\* the class [\\/*?:"<>|] of sanitize_filename
FilenameInvalidChars == {"\\", "/", "*", "?", ":", "\"", "<", ">", "|"}

(***************************************************************************)
(* Python string operations.                                               *)
(***************************************************************************)
RECURSIVE LStrip(_)
LStrip(s) ==
    IF s # <<>> /\ Head(s) \in Whitespace THEN LStrip(Tail(s)) ELSE s

RECURSIVE RStrip(_)
RStrip(s) ==
    IF s # <<>> /\ s[Len(s)] \in Whitespace
    THEN RStrip(SubSeq(s, 1, Len(s) - 1)) ELSE s

\* str.strip()
PyStrip(s) == RStrip(LStrip(s))

\* str.replace(' ', '-')
RECURSIVE ReplaceSpaces(_)
ReplaceSpaces(s) ==
    IF s = <<>> THEN <<>>
    ELSE <<IF Head(s) = " " THEN "-" ELSE Head(s)>> \o ReplaceSpaces(Tail(s))

\* re.sub(r'[...]', '', s): the characters of the class drop are removed
RECURSIVE ReSubClass(_, _)
ReSubClass(s, drop) ==
    IF s = <<>> THEN <<>>
    ELSE (IF Head(s) \in drop THEN <<>> ELSE <<Head(s)>>)
         \o ReSubClass(Tail(s), drop)

\* re.sub(r'[^...]', '', s): the characters outside the class keep are removed
RECURSIVE ReSubNotClass(_, _)
ReSubNotClass(s, keep) ==
    IF s = <<>> THEN <<>>
    ELSE (IF Head(s) \in keep THEN <<Head(s)>> ELSE <<>>)
         \o ReSubNotClass(Tail(s), keep)

\* s[:n]
Slice(s, n) == SubSeq(s, 1, IF Len(s) < n THEN Len(s) ELSE n)

\* '\n'.join(lines)
RECURSIVE JoinNewline(_)
JoinNewline(lines) ==
    IF lines = <<>> THEN <<>>
    ELSE IF Len(lines) = 1 THEN lines[1]
    ELSE lines[1] \o <<"\n">> \o JoinNewline(Tail(lines))

(***************************************************************************)
(* Pure functions of fetch_transcripts.py.                                 *)
(***************************************************************************)
\* the length {11} of a video id in the URL pattern
VideoIdLen == 11
\* max_length of a derived title
max_length == 50

\* A URL is held by the parts the pattern of is_valid_youtube_url reads:
\* scheme, "www." prefix, site prefix, the run of [\w-] characters after it
\* (its length), and what follows that run: "" (nothing), "&params" (an '&'
\* and characters other than whitespace) or "other" (anything else).
is_valid_youtube_url(url) ==
    /\ url.scheme \in {"", "http://", "https://"}
    /\ url.www \in {"", "www."}
    /\ url.site \in {"youtube.com/watch?v=", "youtu.be/"}
    /\ url.idLen = VideoIdLen
    /\ url.rest \in {"", "&params"}

sanitize_filename(title) ==
    ReSubClass(ReplaceSpaces(title), FilenameInvalidChars)

\* info.get('title', 'video'): a missing key is <<>>, a title t is <<t>>
InfoGetTitle(info_title) ==
    IF info_title = <<>> THEN <<"v","i","d","e","o">> ELSE info_title[1]

Truncate_NoCap(s, n) == s

\* video_title[:max_length]
Truncate(s, n) == Slice(s, n)

\* the video_title of fetch_transcript
DeriveTitle(info_title) ==
    Truncate(ReSubNotClass(ReplaceSpaces(PyStrip(InfoGetTitle(info_title))),
                           TitleChars), max_length)

\* index of the first '>' of s at or after position i, 0 when there is none
RECURSIVE FirstGt(_, _)
FirstGt(s, i) ==
    IF i > Len(s) THEN 0
    ELSE IF s[i] = ">" THEN i ELSE FirstGt(s, i + 1)

\* re.sub(r'<[^>]+>', '', s): one left-to-right pass; a match starts at a '<'
\* that is followed by at least one character other than '>' and then a '>'
RECURSIVE ReSubTagsFrom(_, _)
ReSubTagsFrom(s, i) ==
    IF i > Len(s) THEN <<>>
    ELSE LET j == FirstGt(s, i + 1)
         IN IF s[i] = "<" /\ j > i + 1
            THEN ReSubTagsFrom(s, j + 1)
            ELSE <<s[i]>> \o ReSubTagsFrom(s, i + 1)

CleanText_NoTagStrip(text) == PyStrip(text)

\* clean_text of one caption
CleanText(text) == PyStrip(ReSubTagsFrom(text, 1))

KeepCue_OddIndex(idx, clean_text) == clean_text # <<>> /\ idx % 2 = 1

\* the condition under which a caption is appended to the transcript
KeepCue(idx, clean_text) == clean_text # <<>> /\ idx % 2 = 0

\* the loop over enumerate(captions), from index idx on (idx counts from 0)
RECURSIVE TranscriptLines(_, _, _)
TranscriptLines(captions, idx, transcript) ==
    IF idx >= Len(captions) THEN transcript
    ELSE LET clean_text == CleanText(captions[idx + 1])
         IN TranscriptLines(captions, idx + 1,
                IF KeepCue(idx, clean_text)
                THEN Append(transcript, clean_text) ELSE transcript)

\* A caption file: valid is whether webvtt.read parses it, cues its texts.
convert_subtitles_to_text(file) ==
    IF ~file.valid THEN <<>>
    ELSE JoinNewline(TranscriptLines(file.cues, 0, <<>>))

SubtitleSelection_AutoFirst(language, subtitles, automatic_captions) ==
    IF language \in automatic_captions
    THEN [subtitle_type |-> "auto-generated", download_subtitles |-> TRUE,
          write_automaticsub |-> TRUE]
    ELSE IF language \in subtitles
    THEN [subtitle_type |-> "user-provided", download_subtitles |-> TRUE,
          write_automaticsub |-> FALSE]
    ELSE [subtitle_type |-> "unavailable", download_subtitles |-> FALSE,
          write_automaticsub |-> FALSE]

SubtitleSelection_NeverUnavailable(language, subtitles, automatic_captions) ==
    IF language \in subtitles
    THEN [subtitle_type |-> "user-provided", download_subtitles |-> TRUE,
          write_automaticsub |-> FALSE]
    ELSE [subtitle_type |-> "auto-generated", download_subtitles |-> TRUE,
          write_automaticsub |-> TRUE]

\* Step 2 of fetch_transcript; "unavailable" is the branch that returns None
SubtitleSelection(language, subtitles, automatic_captions) ==
    IF language \in subtitles
    THEN [subtitle_type |-> "user-provided", download_subtitles |-> TRUE,
          write_automaticsub |-> FALSE]
    ELSE IF language \in automatic_captions
    THEN [subtitle_type |-> "auto-generated", download_subtitles |-> TRUE,
          write_automaticsub |-> TRUE]
    ELSE [subtitle_type |-> "unavailable", download_subtitles |-> FALSE,
          write_automaticsub |-> FALSE]

(***************************************************************************)
(* The inputs the environment can supply.                                  *)
(***************************************************************************)
\* CONFIG['DEFAULT_LANGUAGE'], the language every caller passes
DEFAULT_LANGUAGE == "en"
\* the languages a video can have captions in
Langs == {"en", "fr"}

WatchUrl == [scheme |-> "https://", www |-> "www.",
             site |-> "youtube.com/watch?v=", idLen |-> 11, rest |-> ""]
OtherSiteUrl == [scheme |-> "https://", www |-> "",
                 site |-> "vimeo.com/", idLen |-> 9, rest |-> ""]
UrlPool == {WatchUrl, OtherSiteUrl}

\* the 'title' entry of the metadata: <<>> when the key is missing
MyVideo == <<"M","y"," ","V","i","d","e","o","!">>
NoneVideo == <<"N","o","n","e">>
InfoTitlePool == {<<MyVideo>>, <<NoneVideo>>}

MalformedVtt == [valid |-> FALSE, cues |-> <<>>]
EmptyVtt == [valid |-> TRUE, cues |-> <<>>]
FilteredVtt == [valid |-> TRUE, cues |-> << <<"<","c",">"," ">>, <<"a">> >>]
GoodVtt == [valid |-> TRUE,
            cues |-> << <<"<","c",">","a">>, <<"a">>, <<"b">>, <<"b">> >>]
VttPool == {MalformedVtt, EmptyVtt, FilteredVtt, GoodVtt}

SeqsUpTo(S, n) == UNION {[1..k -> S] : k \in 0..n}

(***************************************************************************)
(* State.                                                                  *)
(***************************************************************************)
VARIABLES
    entry,            \* the program run: "cli" (fetch_transcripts.main),
                      \* "driver" (cmd_driver.main) or "ui" (streamlit_app)
    language,         \* the target language of the requests
    urls,             \* the URLs of the run, in order
    idx,              \* position in urls of the current request
    pc,               \* where the run is
    attempted,        \* the URLs on which a request was started, in order
    info,             \* fetch_transcript: the metadata fetched
    video_title,      \* fetch_transcript: video_title
    subtitle_type,    \* fetch_transcript: subtitle_type
    ydl_opts,         \* fetch_transcript: ydl_opts of the download
    subtitle_exists,  \* fetch_transcript: os.path.exists(subtitle_path)
    transcript_text,  \* fetch_transcript: transcript_text
    remove_outcome,   \* fetch_transcript: how os.remove(subtitle_path) ended
    result,           \* what fetch_transcript returned: <<>> is None
    calls,            \* the external calls of the current request, in order
    ret,              \* what process_url returned: <<>> is None, <<t>> is t
    tempFiles,        \* SUBTITLES_DIR: <<title, language>> -> caption file
    outFiles,         \* OUTPUT_DIR: name -> text of <name>.txt
    outBefore,        \* OUTPUT_DIR when the current request started
    processed,        \* the URLs marked processed in the CSV
    blogs,            \* data/blogs: name -> the transcript the post is from
    uiTranscript,     \* st.session_state.transcript_text
    uiStatus,         \* what the front-end last showed
    cueFile,          \* convert_subtitles_to_text: its input
    text,             \* convert_subtitles_to_text: its result
    rawTitle,         \* title derivation: the 'title' entry of the metadata
    title,            \* title derivation: the derived title
    fpc               \* where the run of a pure function is

pipelineVars == <<entry, language, urls, idx, pc, attempted, info, video_title,
                  subtitle_type, ydl_opts, subtitle_exists, transcript_text,
                  remove_outcome, result, calls, ret, tempFiles, outFiles, outBefore,
                  processed, blogs, uiTranscript, uiStatus>>
functionVars == <<cueFile, text, rawTitle, title, fpc>>
vars == <<pipelineVars, functionVars>>

None == <<>>
NoInfo == [status |-> "unset", title |-> <<>>, subtitles |-> {},
           automatic_captions |-> {}]
NoOpts == [writesubtitles |-> FALSE, writeautomaticsub |-> FALSE,
           subtitleslangs |-> {}, outtmpl |-> <<>>]
EmptyDir == <<>>

\* a directory with file name holding content
PutFile(dir, name, content) ==
    [n \in DOMAIN dir \cup {name} |-> IF n = name THEN content ELSE dir[n]]
\* a directory without file name
DelFile(dir, name) == [n \in DOMAIN dir \ {name} |-> dir[n]]

\* f"{video_title}.txt" names the file by str(video_title)
PyStr(optional) == IF optional = None THEN NoneVideo ELSE optional[1]

\* the request is over: its locals are gone
RequestOver ==
    /\ calls' = <<>>
    /\ outBefore' = outFiles
    /\ info' = NoInfo
    /\ video_title' = <<>>
    /\ subtitle_type' = "unset"
    /\ ydl_opts' = NoOpts
    /\ subtitle_exists' = "unset"
    /\ transcript_text' = <<>>
    /\ remove_outcome' = "unset"
    /\ result' = None
    /\ ret' = None

FunctionsIdle ==
    /\ cueFile = EmptyVtt
    /\ text = <<>>
    /\ rawTitle = <<>>
    /\ title = <<>>
    /\ fpc = "idle"

PipelineIdle ==
    /\ entry = "none"
    /\ language = "en"
    /\ urls = <<>>
    /\ idx = 1
    /\ pc = "idle"
    /\ attempted = <<>>
    /\ info = NoInfo
    /\ video_title = <<>>
    /\ subtitle_type = "unset"
    /\ ydl_opts = NoOpts
    /\ subtitle_exists = "unset"
    /\ transcript_text = <<>>
    /\ remove_outcome = "unset"
    /\ result = None
    /\ calls = <<>>
    /\ ret = None
    /\ tempFiles = EmptyDir
    /\ outFiles = EmptyDir
    /\ outBefore = EmptyDir
    /\ processed = {}
    /\ blogs = EmptyDir
    /\ uiTranscript = <<>>
    /\ uiStatus = "none"

\* data/transcripts before the run: empty, or a None.txt of an earlier run
PriorOutputs == {EmptyDir, PutFile(EmptyDir, NoneVideo, <<"o","l","d">>)}

Init ==
    /\ entry \in {"cli", "driver", "ui"}
    /\ language = DEFAULT_LANGUAGE
    /\ urls \in SeqsUpTo(UrlPool, MaxUrls)
    /\ idx = 1
    /\ pc = "loop"
    /\ attempted = <<>>
    /\ info = NoInfo
    /\ video_title = <<>>
    /\ subtitle_type = "unset"
    /\ ydl_opts = NoOpts
    /\ subtitle_exists = "unset"
    /\ transcript_text = <<>>
    /\ remove_outcome = "unset"
    /\ result = None
    /\ calls = <<>>
    /\ ret = None
    /\ tempFiles = EmptyDir
    /\ outFiles \in PriorOutputs
    /\ outBefore = outFiles
    /\ processed = {}
    /\ blogs = EmptyDir
    /\ uiTranscript = <<>>
    /\ uiStatus = "none"
    /\ FunctionsIdle

(***************************************************************************)
(* fetch_transcript, one action per external call.                         *)
(***************************************************************************)
\* subtitle_path: SUBTITLES_DIR/<video_title>.<language>.vtt
SubtitlePath(a_title, a_language) == <<a_title, a_language>>

\* the file yt-dlp writes for outtmpl <...>.%(ext)s and one subtitle language
DownloadPath(opts, a_language) == <<opts.outtmpl, a_language>>

SubtitleFileFound_Always(dir, path) == TRUE

\* os.path.exists(subtitle_path)
SubtitleFileFound(dir, path) == path \in DOMAIN dir

\* webvtt.read(subtitle_path): a missing file raises like a malformed one
ReadVtt(dir, path) == IF path \in DOMAIN dir THEN dir[path] ELSE MalformedVtt

ResultAfterCleanup_FailOnError(outcome, a_text, a_title) ==
    IF outcome = "ok" THEN <<a_text, a_title>> ELSE None

\* the value returned after Step 7, whichever way os.remove ended
ResultAfterCleanup(outcome, a_text, a_title) == <<a_text, a_title>>

\* Step 1 to Step 3: the metadata fetch, the title, the selection, ydl_opts
ExtractInfo ==
    /\ pc = "fetch_transcript"
    /\ calls' = Append(calls, "extract_info")
    /\ \/ /\ \E error \in {"DownloadError", "Exception"} :
                info' = [NoInfo EXCEPT !.status = error]
          /\ result' = None
          /\ pc' = "fetch_returned"
          /\ UNCHANGED <<video_title, subtitle_type, ydl_opts>>
       \/ \E info_title \in InfoTitlePool, subtitles \in SUBSET Langs,
             automatic_captions \in SUBSET Langs :
            LET sel == SubtitleSelection(language, subtitles,
                                         automatic_captions)
                derived == DeriveTitle(info_title)
            IN /\ info' = [status |-> "ok", title |-> info_title,
                           subtitles |-> subtitles,
                           automatic_captions |-> automatic_captions]
               /\ video_title' = derived
               /\ result' = None
               /\ IF sel.subtitle_type = "unavailable"
                  THEN /\ pc' = "fetch_returned"
                       /\ UNCHANGED <<subtitle_type, ydl_opts>>
                  ELSE /\ pc' = "download"
                       /\ subtitle_type' = sel.subtitle_type
                       /\ ydl_opts' =
                            [writesubtitles |-> sel.download_subtitles,
                             writeautomaticsub |-> sel.write_automaticsub,
                             subtitleslangs |-> {language},
                             outtmpl |-> sanitize_filename(derived)]
    /\ UNCHANGED <<entry, language, urls, idx, attempted, subtitle_exists,
                   transcript_text, remove_outcome, ret, tempFiles, outFiles,
                   outBefore, processed, blogs, uiTranscript, uiStatus>>
    /\ UNCHANGED functionVars

\* Step 4 and Step 5: the caption download and the look at subtitle_path
DownloadSubtitles ==
    /\ pc = "download"
    /\ calls' = Append(calls, "download")
    /\ \/ /\ result' = None
          /\ pc' = "fetch_returned"
          /\ UNCHANGED <<tempFiles, subtitle_exists>>
       \/ \E written \in {<<>>} \cup {<<f>> : f \in VttPool} :
            LET dir == IF written = <<>> THEN tempFiles
                       ELSE PutFile(tempFiles,
                                    DownloadPath(ydl_opts, language),
                                    written[1])
                found == SubtitleFileFound(dir, SubtitlePath(video_title,
                                                             language))
            IN /\ tempFiles' = dir
               /\ subtitle_exists' = IF found THEN "true" ELSE "false"
               /\ result' = None
               /\ pc' = IF found THEN "convert" ELSE "fetch_returned"
    /\ UNCHANGED <<entry, language, urls, idx, attempted, info, video_title,
                   subtitle_type, ydl_opts, transcript_text, remove_outcome,
                   ret, outFiles, outBefore, processed, blogs, uiTranscript,
                   uiStatus>>
    /\ UNCHANGED functionVars

\* Step 6: convert_subtitles_to_text(subtitle_path)
ConvertSubtitles ==
    /\ pc = "convert"
    /\ calls' = Append(calls, "convert")
    /\ transcript_text' = convert_subtitles_to_text(
            ReadVtt(tempFiles, SubtitlePath(video_title, language)))
    /\ pc' = "cleanup"
    /\ UNCHANGED <<entry, language, urls, idx, attempted, info, video_title,
                   subtitle_type, ydl_opts, subtitle_exists, remove_outcome,
                   result, ret, tempFiles, outFiles, outBefore, processed,
                   blogs, uiTranscript, uiStatus>>
    /\ UNCHANGED functionVars

\* Step 7 and the return: os.remove(subtitle_path) may raise, which is logged
RemoveSubtitleFile ==
    /\ pc = "cleanup"
    /\ calls' = Append(calls, "remove")
    /\ \E outcome \in IF SubtitlePath(video_title, language)
                             \in DOMAIN tempFiles
                      THEN {"ok", "error"} ELSE {"error"} :
        /\ remove_outcome' = outcome
        /\ tempFiles' =
             IF outcome = "ok"
             THEN DelFile(tempFiles, SubtitlePath(video_title, language))
             ELSE tempFiles
        /\ result' = ResultAfterCleanup(outcome, transcript_text, video_title)
    /\ pc' = "fetch_returned"
    /\ UNCHANGED <<entry, language, urls, idx, attempted, info, video_title,
                   subtitle_type, ydl_opts, subtitle_exists, transcript_text,
                   ret, outFiles, outBefore, processed, blogs, uiTranscript,
                   uiStatus>>
    /\ UNCHANGED functionVars

(***************************************************************************)
(* The callers: process_url, the two batch loops and the front-end.        *)
(***************************************************************************)
BatchEntries == {"cli", "driver"}

\* for url in urls: process_url(url, language), up to the URL check
ProcessUrlStart ==
    /\ pc = "loop"
    /\ entry \in BatchEntries
    /\ idx <= Len(urls)
    /\ attempted' = Append(attempted, urls[idx])
    /\ pc' = IF is_valid_youtube_url(urls[idx])
             THEN "fetch_transcript" ELSE "process_url_returned"
    /\ UNCHANGED <<entry, language, urls, idx, info, video_title,
                   subtitle_type, ydl_opts, subtitle_exists, transcript_text,
                   remove_outcome, result, calls, ret, tempFiles, outFiles,
                   outBefore, processed, blogs, uiTranscript, uiStatus>>
    /\ UNCHANGED functionVars

\* fetch_transcript_ui(url): a click on "Fetch Transcript"
UiFetchStart ==
    /\ pc = "loop"
    /\ entry = "ui"
    /\ idx <= Len(urls)
    /\ attempted' = Append(attempted, urls[idx])
    /\ pc' = "fetch_transcript"
    /\ UNCHANGED <<entry, language, urls, idx, info, video_title,
                   subtitle_type, ydl_opts, subtitle_exists, transcript_text,
                   remove_outcome, result, calls, ret, tempFiles, outFiles,
                   outBefore, processed, blogs, uiTranscript, uiStatus>>
    /\ UNCHANGED functionVars

\* process_url after fetch_transcript returned: save_transcript and return
ProcessUrlFinish ==
    /\ pc = "fetch_returned"
    /\ entry \in BatchEntries
    /\ IF result # None /\ result[1] # <<>>
       THEN /\ calls' = Append(calls, "save_transcript")
            /\ \E written \in BOOLEAN :
                 outFiles' =
                   IF written
                   THEN PutFile(outFiles,
                                Slice(sanitize_filename(result[2]), 50),
                                result[1])
                   ELSE outFiles
            /\ ret' = <<result[2]>>
       ELSE /\ ret' = None
            /\ UNCHANGED <<calls, outFiles>>
    /\ pc' = "process_url_returned"
    /\ UNCHANGED <<entry, language, urls, idx, attempted, info, video_title,
                   subtitle_type, ydl_opts, subtitle_exists, transcript_text,
                   remove_outcome, result, tempFiles, outBefore, processed,
                   blogs, uiTranscript, uiStatus>>
    /\ UNCHANGED functionVars

\* fetch_transcript_ui after fetch_transcript returned
UiFetchFinish ==
    /\ pc = "fetch_returned"
    /\ entry = "ui"
    /\ IF result # None
       THEN /\ uiTranscript' = result[1]
            /\ uiStatus' = "success"
       ELSE /\ uiStatus' = "error"
            /\ UNCHANGED uiTranscript
    /\ idx' = idx + 1
    /\ pc' = "loop"
    /\ RequestOver
    /\ UNCHANGED <<entry, language, urls, attempted, tempFiles, outFiles,
                   processed, blogs>>
    /\ UNCHANGED functionVars

\* fetch_transcripts.main: the loop goes on to the next URL
CliContinue ==
    /\ pc = "process_url_returned"
    /\ entry = "cli"
    /\ idx' = idx + 1
    /\ pc' = "loop"
    /\ RequestOver
    /\ UNCHANGED <<entry, language, urls, attempted, tempFiles, outFiles,
                   processed, blogs, uiTranscript, uiStatus>>
    /\ UNCHANGED functionVars

NextAfterIteration_StopOnError(outcome) ==
    IF outcome = "exception" THEN "done" ELSE "loop"

\* cmd_driver.main: except Exception prints, and the loop goes on
NextAfterIteration(outcome) == "loop"

\* cmd_driver.main after process_url returned: the path, generate_blog and
\* mark_url_as_processed, inside the try
DriverGenerateBlog ==
    /\ pc = "process_url_returned"
    /\ entry = "driver"
    /\ LET name == PyStr(ret)
       IN \E service \in {"ok", "exception"} :
            LET outcome == IF name \in DOMAIN outFiles
                           THEN service ELSE "exception"
            IN /\ IF outcome = "ok"
                  THEN /\ blogs' = PutFile(blogs, name, outFiles[name])
                       /\ processed' = processed \cup {urls[idx]}
                  ELSE UNCHANGED <<blogs, processed>>
               /\ pc' = NextAfterIteration(outcome)
    /\ idx' = idx + 1
    /\ RequestOver
    /\ UNCHANGED <<entry, language, urls, attempted, tempFiles, outFiles,
                   uiTranscript, uiStatus>>
    /\ UNCHANGED functionVars

\* the list is exhausted
LoopExit ==
    /\ pc = "loop"
    /\ idx > Len(urls)
    /\ pc' = "done"
    /\ UNCHANGED <<entry, language, urls, idx, attempted, info, video_title,
                   subtitle_type, ydl_opts, subtitle_exists, transcript_text,
                   remove_outcome, result, calls, ret, tempFiles, outFiles,
                   outBefore, processed, blogs, uiTranscript, uiStatus>>
    /\ UNCHANGED functionVars

Next ==
    \/ ProcessUrlStart
    \/ UiFetchStart
    \/ ExtractInfo
    \/ DownloadSubtitles
    \/ ConvertSubtitles
    \/ RemoveSubtitleFile
    \/ ProcessUrlFinish
    \/ UiFetchFinish
    \/ CliContinue
    \/ DriverGenerateBlog
    \/ LoopExit

Spec == Init /\ [][Next]_vars

\* every step of the sequential program is taken once it can be: each
\* blocking call returns
FairSpec == Spec /\ WF_vars(Next)

(***************************************************************************)
(* convert_subtitles_to_text on every caption file within the bounds.      *)
(***************************************************************************)
CueAlphabet == {"<", ">", " ", "a"}

\* the ways to cut n characters into k cues: the end of each cue but the last
Cuts(k, n) ==
    {c \in [1..(k - 1) -> 0..n] : \A i \in 1..(k - 2) : c[i] <= c[i + 1]}

\* the k cues that the characters s make when cut at c
CutCues(s, k, c) ==
    [i \in 1..k |->
        SubSeq(s, (IF i = 1 THEN 0 ELSE c[i - 1]) + 1,
                  IF i = k THEN Len(s) ELSE c[i])]

\* a file that does not parse, or any file of at most MaxCues cues that hold
\* at most MaxChars characters of CueAlphabet together
InitConvert ==
    /\ PipelineIdle
    /\ \/ cueFile = MalformedVtt
       \/ cueFile = EmptyVtt
       \/ \E k \in 1..MaxCues, n \in 0..MaxChars :
            \E s \in [1..n -> CueAlphabet], c \in Cuts(k, n) :
                cueFile = [valid |-> TRUE, cues |-> CutCues(s, k, c)]
    /\ text = <<>>
    /\ rawTitle = <<>>
    /\ title = <<>>
    /\ fpc = "start"

Convert ==
    /\ fpc = "start"
    /\ text' = convert_subtitles_to_text(cueFile)
    /\ fpc' = "done"
    /\ UNCHANGED <<cueFile, rawTitle, title>>
    /\ UNCHANGED pipelineVars

NextConvert == Convert

SpecConvert == InitConvert /\ [][NextConvert]_vars

(***************************************************************************)
(* The title derivation on every title within the bounds.                  *)
(***************************************************************************)
TitleAlphabet == {"a", "7", " ", "\t", "!", "-"}

\* k ordinary characters, to reach the length cap
Pad(k) == [i \in 1..k |-> "x"]
PadCounts == {0, max_length - 1, max_length, max_length + 1}

RawTitles ==
    {<<>>, <<MyVideo>>} \cup
    UNION {{<<Pad(k) \o b>>, <<b \o Pad(k)>>} :
           b \in SeqsUpTo(TitleAlphabet, MaxTitleLen), k \in PadCounts}

InitTitle ==
    /\ PipelineIdle
    /\ cueFile = EmptyVtt
    /\ text = <<>>
    /\ rawTitle \in RawTitles
    /\ title = <<>>
    /\ fpc = "start"

DeriveVideoTitle ==
    /\ fpc = "start"
    /\ title' = DeriveTitle(rawTitle)
    /\ fpc' = "done"
    /\ UNCHANGED <<cueFile, text, rawTitle>>
    /\ UNCHANGED pipelineVars

NextTitle == DeriveVideoTitle

SpecTitle == InitTitle /\ [][NextTitle]_vars

(***************************************************************************)
(* Properties.                                                             *)
(***************************************************************************)
InRequest == pc \in {"fetch_transcript", "download", "convert", "cleanup",
                     "fetch_returned", "process_url_returned"}
Called(call) == \E i \in DOMAIN calls : calls[i] = call
CurrentUrl == urls[idx]

\* C1: once the metadata is fetched, the selection is user-provided if the
\* language is a key of 'subtitles' (whatever 'automatic_captions' holds),
\* auto-generated if it is a key of 'automatic_captions' only, and otherwise
\* the function has returned None without selecting; a user-provided
\* selection is downloaded with writeautomaticsub = False
C1_SelectionPolicy ==
    info.status = "ok" =>
        /\ language \in info.subtitles =>
              /\ subtitle_type = "user-provided"
              /\ ydl_opts.writesubtitles
              /\ ~ydl_opts.writeautomaticsub
              /\ ydl_opts.subtitleslangs = {language}
        /\ (language \notin info.subtitles
            /\ language \in info.automatic_captions) =>
              /\ subtitle_type = "auto-generated"
              /\ ydl_opts.writeautomaticsub
        /\ (language \notin info.subtitles
            /\ language \notin info.automatic_captions) =>
              /\ subtitle_type = "unset"
              /\ pc \in {"fetch_returned", "process_url_returned"}
              /\ result = None

C1_Witness ==
    /\ pc = "download"
    /\ language \in info.subtitles
    /\ language \in info.automatic_captions
    /\ subtitle_type = "user-provided"

\* C2: a request whose language is a key of neither map ends with None, its
\* only external call being the one metadata fetch: no download is issued
C2_UnavailableNoDownload ==
    (/\ info.status = "ok"
     /\ language \notin info.subtitles
     /\ language \notin info.automatic_captions) =>
        /\ calls = <<"extract_info">>
        /\ pc \in {"fetch_returned", "process_url_returned"}
        /\ result = None

C2_Witness ==
    /\ pc = "fetch_returned"
    /\ info.status = "ok"
    /\ info.subtitles = {"fr"}
    /\ info.automatic_captions = {}
    /\ result = None

\* C3: a request whose URL does not match the pattern ends in failure and
\* makes no metadata fetch and no caption download, through every entry point
C3_InvalidUrlNoNetwork ==
    (InRequest /\ ~is_valid_youtube_url(CurrentUrl)) =>
        /\ ~Called("extract_info")
        /\ ~Called("download")
        /\ result = None
        /\ ret = None

\* C4: a request that ends as a success (the front-end shows success, or
\* process_url returns a title) carries a transcript that is not empty
C4_SuccessNonEmpty ==
    /\ uiStatus = "success" => uiTranscript # <<>>
    /\ (pc = "process_url_returned" /\ ret # None) => result[1] # <<>>

\* C5: when the download returned without error and no file is at
\* subtitle_path, the normalizer does not run, fetch_transcript returns None
\* and the output directory is as it was when the request started
C5_MissingFileIsFailure ==
    (/\ InRequest
     /\ subtitle_exists # "unset"
     /\ ~Called("remove")
     /\ SubtitlePath(video_title, language) \notin DOMAIN tempFiles) =>
        /\ ~Called("convert")
        /\ ~Called("save_transcript")
        /\ pc \in {"fetch_returned", "process_url_returned"}
        /\ result = None
        /\ ret = None
        /\ outFiles = outBefore

C5_Witness ==
    /\ pc = "process_url_returned"
    /\ subtitle_exists = "false"
    /\ subtitle_type = "user-provided"
    /\ ret = None

\* C6: once a run of fetch_transcript that reached normalization has
\* returned, the deletion of the caption file has been attempted, the result
\* is the pair (transcript_text, video_title) however the deletion ended, and
\* the file is gone unless the deletion failed
C6_CleanupAlways ==
    (pc \in {"fetch_returned", "process_url_returned"} /\ Called("convert")) =>
        /\ Called("remove")
        /\ remove_outcome \in {"ok", "error"}
        /\ result = <<transcript_text, video_title>>
        /\ remove_outcome = "ok" =>
              SubtitlePath(video_title, language) \notin DOMAIN tempFiles

C6_Witness ==
    /\ pc = "fetch_returned"
    /\ Called("convert")
    /\ transcript_text = <<>>
    /\ remove_outcome = "error"
    /\ result = <<<<>>, video_title>>

\* the positions of cues that are even counted from 0 and clean to some text
KeptPositions(cues) ==
    {i \in DOMAIN cues : (i - 1) % 2 = 0 /\ CleanText(cues[i]) # <<>>}
\* the j-th smallest member of a set of numbers
NthOf(K, j) == CHOOSE i \in K : Cardinality({m \in K : m < i}) = j - 1
ExpectedLines(cues) ==
    [j \in 1..Cardinality(KeptPositions(cues)) |->
        CleanText(cues[NthOf(KeptPositions(cues), j)])]

TagAt(s, i, j) ==
    /\ i + 1 < j
    /\ s[i] = "<"
    /\ s[j] = ">"
    /\ \A k \in (i + 1)..(j - 1) : s[k] # ">"
HasTag(s) == \E i \in DOMAIN s, j \in DOMAIN s : TagAt(s, i, j)

\* C8 as stated: the joined result as a whole holds no markup tag
C8_NoTagInOutput == fpc = "done" => ~HasTag(text)

\* C8 as amended: the cleaned text of each cue holds no markup tag, so that a
\* tag-shaped part of the result always runs over a newline that joins the
\* texts of two cues
C8_NoTagWithinCue ==
    fpc = "done" =>
        /\ \A n \in DOMAIN cueFile.cues : ~HasTag(CleanText(cueFile.cues[n]))
        /\ \A i \in DOMAIN text, j \in DOMAIN text :
              TagAt(text, i, j) => \E k \in (i + 1)..(j - 1) : text[k] = "\n"

C8_Witness ==
    /\ fpc = "done"
    /\ cueFile.cues = << <<"<", "a", ">", "a">> >>
    /\ text = <<"a">>

\* the title without its leading and trailing whitespace, by positions
TitleCore(raw) ==
    LET solid == {i \in DOMAIN raw : raw[i] \notin Whitespace}
    IN IF solid = {} THEN <<>>
       ELSE SubSeq(raw, CHOOSE i \in solid : \A m \in solid : i <= m,
                        CHOOSE i \in solid : \A m \in solid : m <= i)
Count(s, chars) == Cardinality({i \in DOMAIN s : s[i] \in chars})
\* the runs of whitespace inside the title
InnerRuns(raw) ==
    LET core == TitleCore(raw)
    IN Cardinality({i \in DOMAIN core : /\ core[i] \in Whitespace
                                         /\ core[i - 1] \notin Whitespace})
SpacesAsDashes(s) == [i \in DOMAIN s |-> IF s[i] = " " THEN "-" ELSE s[i]]
IsTitleOrSpace(c) == c \in TitleChars \cup {" "}

\* C10 as stated: at most 50 characters, only letters, digits and '-', and
\* each run of whitespace of the title shown as a single separator (read on
\* titles of letters, digits and whitespace that are not cut)
C10_RunsCollapsed ==
    fpc = "done" =>
        LET raw == InfoGetTitle(rawTitle)
        IN /\ Len(title) <= max_length
           /\ \A i \in DOMAIN title : title[i] \in TitleChars
           /\ (/\ Len(raw) <= max_length
               /\ \A i \in DOMAIN raw :
                     raw[i] \in (TitleChars \ {"-"}) \cup Whitespace) =>
                 Count(title, {"-"}) = InnerRuns(raw)

\* C10 as amended: at most 50 characters, only letters, digits and '-'; the
\* title is the first 50 characters of the stripped title with every space
\* shown as one '-' and every other character outside letters, digits and
\* '-' dropped; "My Video!" gives "My-Video"
C10_SpacesReplaced ==
    fpc = "done" =>
        LET raw == InfoGetTitle(rawTitle)
            shown == SpacesAsDashes(SelectSeq(TitleCore(raw), IsTitleOrSpace))
        IN /\ Len(title) <= max_length
           /\ \A i \in DOMAIN title : title[i] \in TitleChars
           /\ title = SubSeq(shown, 1, IF Len(shown) < max_length
                                       THEN Len(shown) ELSE max_length)
           /\ rawTitle = <<MyVideo>> =>
                 title = <<"M","y","-","V","i","d","e","o">>

C10_Witness ==
    /\ fpc = "done"
    /\ rawTitle = <<MyVideo>>
    /\ title = <<"M","y","-","V","i","d","e","o">>

\* C9: in a batch run every URL of the list is attempted, once and in list
\* order, whatever became of the URLs before it, and the run ends after the
\* last one
C9_EveryUrlAttempted ==
    /\ [](entry \in BatchEntries =>
            attempted = SubSeq(urls, 1, Len(attempted)))
    /\ (entry \in BatchEntries) ~> (pc = "done" /\ attempted = urls)

C9_Witness ==
    /\ pc = "done"
    /\ entry = "driver"
    /\ urls = <<OtherSiteUrl, WatchUrl>>
    /\ attempted = urls
    /\ processed = {WatchUrl}

\* C11: in the batch driver a URL is marked processed, and a blog post is
\* written, only in an iteration where process_url returned a title after
\* calling save_transcript with a non-empty transcript, the file the driver
\* reads (data/transcripts/<returned title>.txt) holds that transcript, and
\* the blog post is generated from it; an iteration whose process_url
\* returned None marks nothing and writes no blog post
C11_MarkedOnlyAfterSave ==
    [][(entry = "driver" /\ (processed' # processed \/ blogs' # blogs)) =>
          /\ pc = "process_url_returned"
          /\ ret # None
          /\ result # None
          /\ result[1] # <<>>
          /\ Called("save_transcript")
          /\ PyStr(ret) = Slice(sanitize_filename(result[2]), 50)
          /\ PyStr(ret) \in DOMAIN outFiles
          /\ outFiles[PyStr(ret)] = result[1]
          /\ blogs' = PutFile(blogs, PyStr(ret), result[1])
          /\ processed' = processed \cup {CurrentUrl}]_vars

====
